---- MODULE Spec2Model ----
(***************************************************************************)
(* Model of gherkin-mocha-parser: parseFeature (a line-by-line parser of   *)
(* Gherkin text into a FeatureModel), extractVariablesFromStep and         *)
(* generateMochaTests.  Strings are sequences of one-character strings, so *)
(* that startsWith, slice, trim, split and the two regular expressions are *)
(* computed character by character as the JavaScript does.                 *)
(***************************************************************************)
EXTENDS Integers, Sequences, FiniteSets, TLC

VARIABLES pc, n, i, lines, ctx, detached, error, outputs, step, variables,
          earlier

vars ==
  <<pc, n, i, lines, ctx, detached, error, outputs, step, variables,
    earlier>>

(***************************************************************************)
(* Bounds of the model.                                                    *)
(***************************************************************************)
MaxLines == 4
MaxGenerations == 2
MaxOutlineLines == 5
MaxStepLen == 5
MaxCallLines == 2

(***************************************************************************)
(* String primitives of JavaScript, on sequences of characters.            *)
(***************************************************************************)
Min(S) == CHOOSE x \in S : \A y \in S : x <= y
Max(S) == CHOOSE x \in S : \A y \in S : x >= y

IsSpace(c) == c \in {" ", "\t"}

\* String.prototype.startsWith
startsWith(s, p) == Len(s) >= Len(p) /\ SubSeq(s, 1, Len(p)) = p

\* String.prototype.slice(k), k >= 0
slice(s, k) == SubSeq(s, k + 1, Len(s))

\* String.prototype.trim
trim(s) ==
  LET keep == {k \in 1..Len(s) : ~IsSpace(s[k])}
  IN IF keep = {} THEN <<>> ELSE SubSeq(s, Min(keep), Max(keep))

\* String.prototype.split(sep) for a one-character separator
RECURSIVE SplitFrom(_, _, _, _)
SplitFrom(s, sep, k, cur) ==
  IF k > Len(s) THEN <<cur>>
  ELSE IF s[k] = sep THEN <<cur>> \o SplitFrom(s, sep, k + 1, <<>>)
  ELSE SplitFrom(s, sep, k + 1, Append(cur, s[k]))

split(s, sep) == SplitFrom(s, sep, 1, <<>>)

\* String.prototype.split(/\s+/): the fields between maximal whitespace runs
RECURSIVE SplitWsFrom(_, _, _)
SplitWsFrom(s, k, cur) ==
  IF k > Len(s) THEN <<cur>>
  ELSE IF IsSpace(s[k])
    THEN LET rest == {j \in k..Len(s) : ~IsSpace(s[j])}
             j == IF rest = {} THEN Len(s) + 1 ELSE Min(rest)
         IN <<cur>> \o SplitWsFrom(s, j, <<>>)
  ELSE SplitWsFrom(s, k + 1, Append(cur, s[k]))

splitWhitespace(s) == SplitWsFrom(s, 1, <<>>)

\* Array.prototype.map over a sequence
Map(Op(_), s) == [k \in 1..Len(s) |-> Op(s[k])]

(***************************************************************************)
(* JavaScript objects with string keys: a sequence of <<key, value>> in    *)
(* own-property order.  Keys that are canonical array indices come first,  *)
(* in ascending numeric order; the other keys follow in insertion order.   *)
(***************************************************************************)
Digits == {"0", "1", "2", "3", "4", "5", "6", "7", "8", "9"}

DigitVal(c) ==
  CASE c = "0" -> 0 [] c = "1" -> 1 [] c = "2" -> 2 [] c = "3" -> 3
    [] c = "4" -> 4 [] c = "5" -> 5 [] c = "6" -> 6 [] c = "7" -> 7
    [] c = "8" -> 8 [] c = "9" -> 9

RECURSIVE NatOf(_)
NatOf(s) == IF s = <<>> THEN 0
            ELSE 10 * NatOf(SubSeq(s, 1, Len(s) - 1)) + DigitVal(s[Len(s)])

\* a canonical array index ("0", "7", "42"; not "", "07", "x"), below 2^32 - 1
IsArrayIndex(k) ==
  /\ Len(k) >= 1
  /\ Len(k) <= 9
  /\ \A j \in 1..Len(k) : k[j] \in Digits
  /\ (Len(k) = 1 \/ k[1] # "0")

ObjKeys(o) == [j \in 1..Len(o) |-> o[j][1]]
ObjHas(o, k) == \E j \in 1..Len(o) : o[j][1] = k
ObjGet(o, k) == o[CHOOSE j \in 1..Len(o) : o[j][1] = k][2]

\* o[k] = v
ObjSet(o, k, v) ==
  IF ObjHas(o, k)
    THEN [j \in 1..Len(o) |-> IF o[j][1] = k THEN <<k, v>> ELSE o[j]]
  ELSE IF IsArrayIndex(k)
    THEN LET before == {j \in 1..Len(o) :
                          IsArrayIndex(o[j][1]) /\ NatOf(o[j][1]) < NatOf(k)}
             m == Cardinality(before)
         IN SubSeq(o, 1, m) \o <<<<k, v>>>> \o SubSeq(o, m + 1, Len(o))
  ELSE Append(o, <<k, v>>)

(***************************************************************************)
(* Constants of the parser.                                                *)
(***************************************************************************)
STEP_KEYWORDS ==
  << <<"G","i","v","e","n">>, <<"W","h","e","n">>, <<"T","h","e","n">>,
     <<"A","n","d">>, <<"B","u","t">> >>

FeaturePrefix == <<"F","e","a","t","u","r","e",":">>
BackgroundPrefix == <<"B","a","c","k","g","r","o","u","n","d",":">>
OutlinePrefix ==
  <<"S","c","e","n","a","r","i","o"," ","O","u","t","l","i","n","e",":">>
ScenarioPrefix == <<"S","c","e","n","a","r","i","o",":">>
ExamplesPrefix == <<"E","x","a","m","p","l","e","s",":">>
RulePrefix == <<"R","u","l","e",":">>

\* Object.keys(handlers), in insertion order
HandlerKeys ==
  <<FeaturePrefix, BackgroundPrefix, OutlinePrefix, ScenarioPrefix,
    ExamplesPrefix, RulePrefix>>

TripleQuote == <<"\"", "\"", "\"">>

isStepLine(line) ==
  \E k \in 1..Len(STEP_KEYWORDS) : startsWith(line, STEP_KEYWORDS[k])

parseTableRow(line) ==
  LET parts == split(line, "|")
  IN Map(trim, SubSeq(parts, 2, Len(parts) - 1))

(***************************************************************************)
(* The document model.                                                     *)
(***************************************************************************)
NoBackground == [present |-> FALSE, steps |-> <<>>]

\* new BackgroundModel()
BackgroundModel == [present |-> TRUE, steps |-> <<>>]

\* new FeatureModel()
FeatureModel ==
  [name |-> <<>>, description |-> <<>>, background |-> NoBackground,
   scenarios |-> <<>>]

\* new ScenarioModel(); it has no examples field
ScenarioModel ==
  [class |-> "ScenarioModel", name |-> <<>>, steps |-> <<>>, tags |-> <<>>,
   examples |-> <<>>]

\* new ScenarioOutlineModel()
ScenarioOutlineModel ==
  [class |-> "ScenarioOutlineModel", name |-> <<>>, steps |-> <<>>,
   tags |-> <<>>, examples |-> <<>>]

NullRef == [kind |-> "null", idx |-> 0]
ScenarioRef(k) == [kind |-> "scenario", idx |-> k]
DetachedRef == [kind |-> "detached", idx |-> 0]
BackgroundRef == [kind |-> "background", idx |-> 0]

\* the Context literal of parseFeature; its currentStepCollector is an array
\* owned by no model object (the variable detached holds its contents)
InitialContext ==
  [feature |-> FeatureModel,
   currentScenario |-> NullRef,
   currentStepCollector |-> DetachedRef,
   mode |-> "none",
   headers |-> <<>>,
   pendingTags |-> <<>>,
   inDocString |-> FALSE]

(***************************************************************************)
(* parseFeature: the keyword handlers.                                     *)
(***************************************************************************)
\* Object.keys(handlers).find((prefix) => line.startsWith(prefix)):
\* the position of the first matching prefix, 0 when none matches
matchedHandler(line) ==
  LET hits == {k \in 1..Len(HandlerKeys) : startsWith(line, HandlerKeys[k])}
  IN IF hits = {} THEN 0 ELSE Min(hits)

featureHandler(line, c) ==
  [c EXCEPT !.feature.name = trim(slice(line, 8))]

\* backgroundHandler, had it kept a Background that already exists
backgroundHandlerKeepsBackground(line, c) ==
  [c EXCEPT !.feature.background =
              IF @.present THEN @ ELSE BackgroundModel,
            !.currentStepCollector = BackgroundRef,
            !.mode = "background"]

\* backgroundHandler, had it also ended the active scenario
backgroundHandlerClearsScenario(line, c) ==
  [c EXCEPT !.feature.background = BackgroundModel,
            !.currentScenario = NullRef,
            !.currentStepCollector = BackgroundRef,
            !.mode = "background"]

backgroundHandler(line, c) ==
  [c EXCEPT !.feature.background = BackgroundModel,
            !.currentStepCollector = BackgroundRef,
            !.mode = "background"]

\* scenarioOutlineHandler, had it not emptied the pending tags
scenarioOutlineHandlerKeepsTags(line, c) ==
  LET outline == [ScenarioOutlineModel EXCEPT !.name = trim(slice(line, 17)),
                                              !.tags = c.pendingTags]
      k == Len(c.feature.scenarios) + 1
  IN [c EXCEPT !.feature.scenarios = Append(@, outline),
               !.currentScenario = ScenarioRef(k),
               !.currentStepCollector = ScenarioRef(k),
               !.mode = "outline"]

scenarioOutlineHandler(line, c) ==
  LET outline == [ScenarioOutlineModel EXCEPT !.name = trim(slice(line, 17)),
                                              !.tags = c.pendingTags]
      k == Len(c.feature.scenarios) + 1
  IN [c EXCEPT !.pendingTags = <<>>,
               !.feature.scenarios = Append(@, outline),
               !.currentScenario = ScenarioRef(k),
               !.currentStepCollector = ScenarioRef(k),
               !.mode = "outline"]

\* scenarioHandler, had it not trimmed the name
scenarioHandlerUntrimmedName(line, c) ==
  LET scenario == [ScenarioModel EXCEPT !.name = slice(line, 9),
                                        !.tags = c.pendingTags]
      k == Len(c.feature.scenarios) + 1
  IN [c EXCEPT !.pendingTags = <<>>,
               !.feature.scenarios = Append(@, scenario),
               !.currentScenario = ScenarioRef(k),
               !.currentStepCollector = ScenarioRef(k),
               !.mode = "scenario"]

\* scenarioHandler, had it not redirected the step collector
scenarioHandlerKeepsCollector(line, c) ==
  LET scenario == [ScenarioModel EXCEPT !.name = trim(slice(line, 9)),
                                        !.tags = c.pendingTags]
      k == Len(c.feature.scenarios) + 1
  IN [c EXCEPT !.pendingTags = <<>>,
               !.feature.scenarios = Append(@, scenario),
               !.currentScenario = ScenarioRef(k),
               !.mode = "scenario"]

scenarioHandler(line, c) ==
  LET scenario == [ScenarioModel EXCEPT !.name = trim(slice(line, 9)),
                                        !.tags = c.pendingTags]
      k == Len(c.feature.scenarios) + 1
  IN [c EXCEPT !.pendingTags = <<>>,
               !.feature.scenarios = Append(@, scenario),
               !.currentScenario = ScenarioRef(k),
               !.currentStepCollector = ScenarioRef(k),
               !.mode = "scenario"]

\* examplesHandler, had it left the header buffer as it was
examplesHandlerKeepsHeader(line, c) == c

\* examplesHandler, had it also ended the active scenario
examplesHandlerEndsScenario(line, c) ==
  [c EXCEPT !.headers = <<>>, !.currentScenario = NullRef]

examplesHandler(line, c) ==
  [c EXCEPT !.headers = <<>>]

ruleHandler(line, c) ==
  [c EXCEPT !.feature.description =
              Append(@, <<"R","u","l","e",":"," ">> \o trim(slice(line, 5))),
            !.mode = "rule"]

\* handlers[matchedHandler](line, ctx), for k = matchedHandler(line) > 0
handlers(k, line, c) ==
  CASE HandlerKeys[k] = FeaturePrefix -> featureHandler(line, c)
    [] HandlerKeys[k] = BackgroundPrefix -> backgroundHandler(line, c)
    [] HandlerKeys[k] = OutlinePrefix -> scenarioOutlineHandler(line, c)
    [] HandlerKeys[k] = ScenarioPrefix -> scenarioHandler(line, c)
    [] HandlerKeys[k] = ExamplesPrefix -> examplesHandler(line, c)
    [] HandlerKeys[k] = RulePrefix -> ruleHandler(line, c)

(***************************************************************************)
(* parseFeature: the other branches of the loop body.  Each returns the    *)
(* context and the detached array after the branch, and whether the branch *)
(* threw a TypeError.                                                      *)
(***************************************************************************)
Result(c, d, t) == [ctx |-> c, detached |-> d, thrown |-> t]

\* ctx.currentStepCollector.push(line)
collectorPush(c, d, line) ==
  CASE c.currentStepCollector.kind = "detached" ->
         Result(c, Append(d, line), FALSE)
    [] c.currentStepCollector.kind = "background" ->
         Result([c EXCEPT !.feature.background.steps = Append(@, line)],
                d, FALSE)
    [] c.currentStepCollector.kind = "scenario" ->
         Result([c EXCEPT !.feature.scenarios[c.currentStepCollector.idx].steps
                            = Append(@, line)], d, FALSE)

docStringDelimiter(line, c, d) ==
  collectorPush([c EXCEPT !.inDocString = ~c.inDocString], d, line)

insideDocString(line, c, d) == collectorPush(c, d, line)

\* tagLine, had it appended the tokens to the buffered tags
tagLineAppending(line, c, d) ==
  Result([c EXCEPT !.pendingTags = @ \o Map(trim, splitWhitespace(line))],
         d, FALSE)

tagLine(line, c, d) ==
  Result([c EXCEPT !.pendingTags = Map(trim, splitWhitespace(line))], d, FALSE)

keywordLine(line, c, d) ==
  Result(handlers(matchedHandler(line), line, c), d, FALSE)

\* ctx.currentScenario instanceof ScenarioOutlineModel
isOutlineInstance(c) ==
  /\ c.currentScenario.kind = "scenario"
  /\ c.feature.scenarios[c.currentScenario.idx].class = "ScenarioOutlineModel"

\* headers.forEach((header, i) => { row[header] = cells[i] || ''; })
RECURSIVE zipRow(_, _, _, _)
zipRow(headers, cells, k, row) ==
  IF k > Len(headers) THEN row
  ELSE zipRow(headers, cells, k + 1,
              ObjSet(row, headers[k],
                     IF k <= Len(cells) THEN cells[k] ELSE <<>>))

\* ctx.currentScenario.examples.push(row): a TypeError when currentScenario
\* is null or has no examples array
examplesPush(c, d, row) ==
  IF isOutlineInstance(c)
    THEN Result([c EXCEPT !.feature.scenarios[c.currentScenario.idx].examples
                            = Append(@, row)], d, FALSE)
    ELSE Result(c, d, TRUE)

\* tableRow, had it pushed the row without the instanceof test
tableRowUnguarded(line, c, d) ==
  LET cells == parseTableRow(line)
  IN IF Len(c.headers) = 0
       THEN Result([c EXCEPT !.headers = cells], d, FALSE)
     ELSE examplesPush(c, d, zipRow(c.headers, cells, 1, <<>>))

tableRow(line, c, d) ==
  LET cells == parseTableRow(line)
  IN IF Len(c.headers) = 0
       THEN Result([c EXCEPT !.headers = cells], d, FALSE)
     ELSE IF isOutlineInstance(c)
       THEN examplesPush(c, d, zipRow(c.headers, cells, 1, <<>>))
     ELSE Result(c, d, FALSE)

\* stepLine, had it pushed to the steps of the active scenario when there
\* is one
stepLineToActiveScenario(line, c, d) ==
  IF c.currentScenario.kind = "scenario"
    THEN Result([c EXCEPT !.feature.scenarios[c.currentScenario.idx].steps
                            = Append(@, line)], d, FALSE)
    ELSE collectorPush(c, d, line)

stepLine(line, c, d) == collectorPush(c, d, line)

\* otherLine, had it kept free text in every mode
otherLineAnyMode(line, c, d) ==
  IF line # <<>>
    THEN Result([c EXCEPT !.feature.description = Append(@, line)], d, FALSE)
    ELSE Result(c, d, FALSE)

otherLine(line, c, d) ==
  IF line # <<>> /\ c.mode = "none"
    THEN Result([c EXCEPT !.feature.description = Append(@, line)], d, FALSE)
    ELSE Result(c, d, FALSE)

\* Branch, had the tag check come before the two doc-string checks
BranchTagsFirst(line, c) ==
  IF startsWith(line, <<"@">>) THEN "tagLine"
  ELSE IF startsWith(line, TripleQuote) THEN "docStringDelimiter"
  ELSE IF c.inDocString THEN "insideDocString"
  ELSE IF matchedHandler(line) # 0 THEN "keywordLine"
  ELSE IF startsWith(line, <<"|">>) THEN "tableRow"
  ELSE IF isStepLine(line) THEN "stepLine"
  ELSE "otherLine"

\* which branch of the loop body handles the line (first match wins)
Branch(line, c) ==
  IF startsWith(line, TripleQuote) THEN "docStringDelimiter"
  ELSE IF c.inDocString THEN "insideDocString"
  ELSE IF startsWith(line, <<"@">>) THEN "tagLine"
  ELSE IF matchedHandler(line) # 0 THEN "keywordLine"
  ELSE IF startsWith(line, <<"|">>) THEN "tableRow"
  ELSE IF isStepLine(line) THEN "stepLine"
  ELSE "otherLine"

(***************************************************************************)
(* extractVariablesFromStep.                                               *)
(***************************************************************************)
Quote == "\""

Letters ==
  {"a","b","c","d","e","f","g","h","i","j","k","l","m","n","o","p","q","r",
   "s","t","u","v","w","x","y","z",
   "A","B","C","D","E","F","G","H","I","J","K","L","M","N","O","P","Q","R",
   "S","T","U","V","W","X","Y","Z"}

\* \w of a regular expression
IsWord(c) == c \in Letters \cup Digits \cup {"_"}

\* the first index >= p of s whose character is not a digit (Len(s) + 1 when
\* there is none)
DigitRunEnd(s, p) ==
  LET stops == {j \in p..Len(s) : s[j] \notin Digits}
  IN IF stops = {} THEN Len(s) + 1 ELSE Min(stops)

\* step.match(/"([^"]+)"/g): the matches, left to right, scanning from p
RECURSIVE quotedMatchesFrom(_, _)
quotedMatchesFrom(s, p) ==
  IF p > Len(s) THEN <<>>
  ELSE LET closers == {e \in (p + 1)..Len(s) : s[e] = Quote}
       IN IF s[p] = Quote /\ closers # {} /\ Min(closers) > p + 1
            THEN <<SubSeq(s, p, Min(closers))>>
                   \o quotedMatchesFrom(s, Min(closers) + 1)
            ELSE quotedMatchesFrom(s, p + 1)

quotedMatches(s) == quotedMatchesFrom(s, 1)

\* step.match(/\b\d+(\.\d+)?\b/g): the matches, left to right, scanning from p
RECURSIVE numberMatchesFrom(_, _)
numberMatchesFrom(s, p) ==
  IF p > Len(s) THEN <<>>
  ELSE IF s[p] \in Digits /\ (p = 1 \/ ~IsWord(s[p - 1]))
    THEN LET e == DigitRunEnd(s, p)
             hasFraction == /\ e + 1 <= Len(s)
                            /\ s[e] = "."
                            /\ s[e + 1] \in Digits
             f == DigitRunEnd(s, e + 1)
         IN IF hasFraction /\ (f > Len(s) \/ ~IsWord(s[f]))
              THEN <<SubSeq(s, p, f - 1)>> \o numberMatchesFrom(s, f)
            ELSE IF e > Len(s) \/ ~IsWord(s[e])
              THEN <<SubSeq(s, p, e - 1)>> \o numberMatchesFrom(s, e)
            ELSE numberMatchesFrom(s, p + 1)
  ELSE numberMatchesFrom(s, p + 1)

numberMatches(s) == numberMatchesFrom(s, 1)

\* match.replace(/"/g, '')
stripQuotes(s) == SelectSeq(s, LAMBDA c : c # Quote)

\* Number(num) for a numeral d+ or d+.d+ : the integer part and the
\* fraction digits without trailing zeros (3.50 and 3.5 are one number)
RECURSIVE dropTrailingZeros(_)
dropTrailingZeros(s) ==
  IF s # <<>> /\ s[Len(s)] = "0"
    THEN dropTrailingZeros(SubSeq(s, 1, Len(s) - 1))
    ELSE s

Number(num) ==
  LET e == DigitRunEnd(num, 1)
  IN [int |-> NatOf(SubSeq(num, 1, e - 1)),
      frac |-> dropTrailingZeros(SubSeq(num, e + 1, Len(num)))]

\* the decimal text of a natural number, as in `key${index + 1}`
RECURSIVE decimal(_)
decimal(k) ==
  LET d == <<"0", "1", "2", "3", "4", "5", "6", "7", "8", "9">>
  IN IF k < 10 THEN <<d[k + 1]>> ELSE decimal(k \div 10) \o <<d[(k % 10) + 1]>>

keyName(k) == <<"k", "e", "y">> \o decimal(k)
numName(k) == <<"n", "u", "m">> \o decimal(k)

RECURSIVE setQuoted(_, _, _)
setQuoted(o, matches, k) ==
  IF k > Len(matches) THEN o
  ELSE setQuoted(ObjSet(o, keyName(k), stripQuotes(matches[k])), matches, k + 1)

RECURSIVE setNumbers(_, _, _)
setNumbers(o, matches, k) ==
  IF k > Len(matches) THEN o
  ELSE setNumbers(ObjSet(o, numName(k), Number(matches[k])), matches, k + 1)

extractVariablesFromStep(s) ==
  setNumbers(setQuoted(<<>>, quotedMatches(s), 1), numberMatches(s), 1)

(***************************************************************************)
(* generateMochaTests.  An element of the output is one entry pushed on    *)
(* `lines`: its kind names the template, text is the interpolated string   *)
(* and value the object whose JSON text the entry holds (in key order).    *)
(***************************************************************************)
Entry(kind, text, value) == [kind |-> kind, text |-> text, value |-> value]

\* one source object copied into target, as Object.assign does
RECURSIVE assignFrom(_, _, _)
assignFrom(target, source, k) ==
  IF k > Len(source) THEN target
  ELSE assignFrom(ObjSet(target, source[k][1], source[k][2]), source, k + 1)

\* Object.assign, had a key already in the target kept its earlier value
RECURSIVE ObjectAssignFirstWins(_, _)
ObjectAssignFirstWins(target, sources) ==
  IF sources = <<>> THEN target
  ELSE LET source == sources[1]
           fresh == SelectSeq(source, LAMBDA kv : ~ObjHas(target, kv[1]))
       IN ObjectAssignFirstWins(assignFrom(target, fresh, 1), Tail(sources))

\* Object.assign(target, ...sources)
RECURSIVE ObjectAssign(_, _)
ObjectAssign(target, sources) ==
  IF sources = <<>> THEN target
  ELSE ObjectAssign(assignFrom(target, sources[1], 1), Tail(sources))

\* Object.assign({}, ...steps.map((s) => extractVariablesFromStep(s)))
stepData(steps) == ObjectAssign(<<>>, Map(extractVariablesFromStep, steps))

comments(steps) == [k \in 1..Len(steps) |-> Entry("comment", steps[k], <<>>)]

preamble ==
  << Entry("require", <<"m","o","c","h","a">>, <<>>),
     Entry("require", <<"c","h","a","i">>, <<>>),
     Entry("blank", <<>>, <<>>) >>

backgroundCase(feature) ==
  IF feature.background.present /\ Len(feature.background.steps) > 0
    THEN << Entry("it", <<"B","a","c","k","g","r","o","u","n","d",":"," ">>
                          \o feature.background.steps[1], <<>>) >>
         \o comments(feature.background.steps)
         \o << Entry("blank", <<>>, <<>>),
               Entry("data", <<>>, stepData(feature.background.steps)),
               Entry("end", <<>>, <<>>),
               Entry("blank", <<>>, <<>>) >>
    ELSE <<>>

\* scenarioCase, had every case been titled with the bare scenario name
scenarioCaseBareTitle(scenario) ==
  LET isOutline == scenario.class = "ScenarioOutlineModel"
  IN << Entry("it", scenario.name, <<>>) >>
     \o comments(scenario.steps)
     \o << Entry("blank", <<>>, <<>>) >>
     \o (IF isOutline
           THEN << Entry("arrayOpen", <<>>, <<>>) >>
                \o [k \in 1..Len(scenario.examples) |->
                      Entry("arrayRow", <<>>, scenario.examples[k])]
                \o << Entry("arrayClose", <<>>, <<>>) >>
           ELSE << Entry("data", <<>>, stepData(scenario.steps)) >>)
     \o << Entry("end", <<>>, <<>>), Entry("blank", <<>>, <<>>) >>

scenarioCase(scenario) ==
  LET isOutline == scenario.class = "ScenarioOutlineModel"
      title == IF isOutline
                 THEN <<"S","c","e","n","a","r","i","o"," ","O","u","t","l",
                        "i","n","e",":"," ">> \o scenario.name
                 ELSE scenario.name
  IN << Entry("it", title, <<>>) >>
     \o comments(scenario.steps)
     \o << Entry("blank", <<>>, <<>>) >>
     \o (IF isOutline
           THEN << Entry("arrayOpen", <<>>, <<>>) >>
                \o [k \in 1..Len(scenario.examples) |->
                      Entry("arrayRow", <<>>, scenario.examples[k])]
                \o << Entry("arrayClose", <<>>, <<>>) >>
           ELSE << Entry("data", <<>>, stepData(scenario.steps)) >>)
     \o << Entry("end", <<>>, <<>>), Entry("blank", <<>>, <<>>) >>

RECURSIVE scenarioCases(_)
scenarioCases(scenarios) ==
  IF scenarios = <<>> THEN <<>>
  ELSE scenarioCase(scenarios[1]) \o scenarioCases(Tail(scenarios))

\* generateMochaTests, had it taken the steps off each scenario with shift()
\* while writing them out
generateMochaTestsConsuming(feature) ==
  [text |-> preamble
            \o << Entry("describe",
                        <<"F","e","a","t","u","r","e",":"," ">> \o feature.name,
                        <<>>) >>
            \o backgroundCase(feature)
            \o scenarioCases(feature.scenarios)
            \o << Entry("endDescribe", <<>>, <<>>) >>,
   feature |-> [feature EXCEPT !.scenarios =
                  [k \in 1..Len(feature.scenarios) |->
                     [feature.scenarios[k] EXCEPT !.steps = <<>>]]]]

\* the text returned, and the feature as the call leaves it
generateMochaTests(feature) ==
  [text |-> preamble
            \o << Entry("describe",
                        <<"F","e","a","t","u","r","e",":"," ">> \o feature.name,
                        <<>>) >>
            \o backgroundCase(feature)
            \o scenarioCases(feature.scenarios)
            \o << Entry("endDescribe", <<>>, <<>>) >>,
   feature |-> feature]

(***************************************************************************)
(* Input lines (raw, before parseFeature trims them).                      *)
(***************************************************************************)
FeatureLine == <<"F","e","a","t","u","r","e",":"," ","L","o","g","i","n">>
BackgroundLine == <<"B","a","c","k","g","r","o","u","n","d",":">>
OutlineLine ==
  <<"S","c","e","n","a","r","i","o"," ","O","u","t","l","i","n","e",":"," ",
    "S","i","g","n"," ","i","n">>
ScenarioLine ==
  <<"S","c","e","n","a","r","i","o",":"," ","L","o","g"," ","o","u","t">>
ExamplesLine == <<"E","x","a","m","p","l","e","s",":">>
RuleLine == <<"R","u","l","e",":"," ","R","1">>
TagsLine == <<"@","s","m","o","k","e"," "," ","@","f","a","s","t">>
TagLineWip == <<"@","w","i","p">>
FenceLine == <<"\"","\"","\"">>
RowUserPw == <<"|"," ","u","s","e","r"," ","|"," ","p","w"," ","|">>
RowBob == <<"|"," ","b","o","b"," ","|">>
RowNumeric == <<"|"," ","2"," ","|"," ","1"," ","|">>
GivenLine ==
  <<" "," ","G","i","v","e","n"," ","\"","a","\""," ","a","n","d"," ","1">>
WhenLine == <<"W","h","e","n"," ","\"","b","\"">>
NotesLine == <<"n","o","t","e","s">>
BlankLine == <<>>

Pool ==
  {FeatureLine, BackgroundLine, OutlineLine, ScenarioLine, ExamplesLine,
   RuleLine, TagsLine, TagLineWip, FenceLine, RowUserPw, RowBob, RowNumeric,
   GivenLine, WhenLine, NotesLine, BlankLine}

(***************************************************************************)
(* The state machine: parseFeature's loop, its return, and calls of        *)
(* generateMochaTests on the returned feature.                             *)
(***************************************************************************)
\* no call of parseFeature has returned yet
NoCall == [returned |-> FALSE, lines |-> <<>>, feature |-> FeatureModel]

InitLen(max) ==
  /\ pc = "loop"
  /\ n \in 0..max
  /\ i = 0
  /\ lines = <<>>
  /\ ctx = InitialContext
  /\ detached = <<>>
  /\ error = FALSE
  /\ outputs = <<>>
  /\ step = <<>>
  /\ variables = <<>>
  /\ earlier = NoCall

Init == InitLen(MaxLines)

\* the effect of one iteration of the loop (for i < lines.length) on the
\* trimmed line, by the branch that handles it
Iterate(line, r) ==
  /\ i' = i + 1
  /\ lines' = Append(lines, line)
  /\ ctx' = r.ctx
  /\ detached' = r.detached
  /\ error' = r.thrown
  /\ pc' = IF r.thrown THEN "threw" ELSE "loop"
  /\ UNCHANGED <<n, outputs, step, variables, earlier>>

DocStringDelimiter(line) ==
  /\ pc = "loop"
  /\ i < n
  /\ Branch(line, ctx) = "docStringDelimiter"
  /\ Iterate(line, docStringDelimiter(line, ctx, detached))

InsideDocString(line) ==
  /\ pc = "loop"
  /\ i < n
  /\ Branch(line, ctx) = "insideDocString"
  /\ Iterate(line, insideDocString(line, ctx, detached))

TagLine(line) ==
  /\ pc = "loop"
  /\ i < n
  /\ Branch(line, ctx) = "tagLine"
  /\ Iterate(line, tagLine(line, ctx, detached))

KeywordLine(line) ==
  /\ pc = "loop"
  /\ i < n
  /\ Branch(line, ctx) = "keywordLine"
  /\ Iterate(line, keywordLine(line, ctx, detached))

TableRow(line) ==
  /\ pc = "loop"
  /\ i < n
  /\ Branch(line, ctx) = "tableRow"
  /\ Iterate(line, tableRow(line, ctx, detached))

StepLine(line) ==
  /\ pc = "loop"
  /\ i < n
  /\ Branch(line, ctx) = "stepLine"
  /\ Iterate(line, stepLine(line, ctx, detached))

OtherLine(line) ==
  /\ pc = "loop"
  /\ i < n
  /\ Branch(line, ctx) = "otherLine"
  /\ Iterate(line, otherLine(line, ctx, detached))

\* lines[i] = raw.trim(), then the loop body
ParseLine(raw) ==
  \/ DocStringDelimiter(trim(raw))
  \/ InsideDocString(trim(raw))
  \/ TagLine(trim(raw))
  \/ KeywordLine(trim(raw))
  \/ TableRow(trim(raw))
  \/ StepLine(trim(raw))
  \/ OtherLine(trim(raw))

\* return ctx.feature
Return ==
  /\ pc = "loop"
  /\ i = n
  /\ pc' = "returned"
  /\ UNCHANGED <<n, i, lines, ctx, detached, error, outputs, step, variables,
                 earlier>>

\* generateMochaTests(feature) on the feature parseFeature returned
Generate ==
  /\ pc = "returned"
  /\ Len(outputs) < MaxGenerations
  /\ LET r == generateMochaTests(ctx.feature)
     IN /\ outputs' = Append(outputs, r.text)
        /\ ctx' = [ctx EXCEPT !.feature = r.feature]
  /\ UNCHANGED <<pc, n, i, lines, detached, error, step, variables, earlier>>

Next ==
  \/ \E raw \in Pool : ParseLine(raw)
  \/ Return
  \/ Generate

Spec == Init /\ [][Next]_vars

NextOver(P) ==
  \/ \E raw \in P : ParseLine(raw)
  \/ Return
  \/ Generate

(***************************************************************************)
(* What the input says, read off the lines handled so far (independently   *)
(* of the parser's context): which lines lie inside a doc string, which    *)
(* are tag lines, which declare a scenario-like entity.                    *)
(***************************************************************************)
IsFence(ls, k) == startsWith(ls[k], TripleQuote)

\* a doc string is open when line k arrives
DocOpenAt(ls, k) == Cardinality({j \in 1..(k - 1) : IsFence(ls, j)}) % 2 = 1

\* line k is neither a fence nor captured by a doc string
Outside(ls, k) == k \in 1..Len(ls) /\ ~IsFence(ls, k) /\ ~DocOpenAt(ls, k)

IsTagLineAt(ls, k) == Outside(ls, k) /\ startsWith(ls[k], <<"@">>)

IsScenarioLineAt(ls, k) ==
  Outside(ls, k) /\ startsWith(ls[k], ScenarioPrefix)
IsOutlineLineAt(ls, k) ==
  Outside(ls, k) /\ startsWith(ls[k], OutlinePrefix)
IsScenarioLikeAt(ls, k) == IsScenarioLineAt(ls, k) \/ IsOutlineLineAt(ls, k)

\* the position in feature.scenarios of the entity that line k declared
EntityOf(ls, k) == Cardinality({j \in 1..k : IsScenarioLikeAt(ls, j)})

\* the first line of the run of tag lines that ends at line k
TagRunStart(ls, k) ==
  Min({j \in 1..k : \A m \in j..k : IsTagLineAt(ls, m)})

RECURSIVE TokensOfRun(_, _, _)
TokensOfRun(ls, j, k) ==
  IF j > k THEN <<>>
  ELSE splitWhitespace(ls[j]) \o TokensOfRun(ls, j + 1, k)

(***************************************************************************)
(* C1.  Tag-flush: a scenario-like line that immediately follows a run of  *)
(* tag lines creates an entity whose tags are the tokens of all the tag   *)
(* lines of the run, concatenated in input order.                          *)
(***************************************************************************)
TagPool ==
  {TagsLine, TagLineWip, ScenarioLine, OutlineLine, FenceLine, GivenLine,
   RowBob, NotesLine}

TagSpec == Init /\ [][NextOver(TagPool)]_vars

C1_TagFlushConcatenation ==
  \A k \in 2..Len(lines) :
    IsScenarioLikeAt(lines, k) /\ IsTagLineAt(lines, k - 1) =>
      ctx.feature.scenarios[EntityOf(lines, k)].tags
        = TokensOfRun(lines, TagRunStart(lines, k - 1), k - 1)


(***************************************************************************)
(* C2.  Table-zip: an example row appended to an outline has exactly the   *)
(* keys of the header row buffered when the row was parsed, in header      *)
(* order; a missing trailing cell is "" and cells beyond the header are    *)
(* discarded.                                                              *)
(***************************************************************************)
TablePool ==
  {OutlineLine, ExamplesLine, RowUserPw, RowBob, RowNumeric, FenceLine,
   TagLineWip, GivenLine, NotesLine}

TableSpec == Init /\ [][NextOver(TablePool)]_vars

\* the header cells in header order, a repeated header counted once
RECURSIVE Distinct(_)
Distinct(s) ==
  IF s = <<>> THEN <<>>
  ELSE LET front == SubSeq(s, 1, Len(s) - 1)
       IN IF \E j \in 1..Len(front) : front[j] = s[Len(s)]
            THEN Distinct(front)
            ELSE Append(Distinct(front), s[Len(s)])

\* the cell of the last line handled that stands in column j, "" when missing
CellOrEmpty(cells, j) == IF j <= Len(cells) THEN cells[j] ELSE <<>>

RowZipsHeader(row, headers, cells) ==
  /\ ObjKeys(row) = Distinct(headers)
  /\ \A j \in 1..Len(headers) :
       (\A m \in (j + 1)..Len(headers) : headers[m] # headers[j]) =>
         ObjGet(row, headers[j]) = CellOrEmpty(cells, j)

\* every step that appends an example row appends the zip of the header
\* buffered before the step with the cells of the line just handled
C2_TableZip ==
  [][\A s \in 1..Len(ctx.feature.scenarios) :
       Len(ctx'.feature.scenarios[s].examples)
         > Len(ctx.feature.scenarios[s].examples) =>
       LET examples == ctx'.feature.scenarios[s].examples
       IN RowZipsHeader(examples[Len(examples)], ctx.headers,
                        parseTableRow(lines'[Len(lines')]))]_vars

(***************************************************************************)
(* C3.  Doc-string capture: every line from an opening fence up to and     *)
(* including the next fence is appended verbatim to the step collector     *)
(* that was active when the opening fence was seen, and the step changes   *)
(* nothing else of the context or feature but the doc-string flag, also    *)
(* when the captured line starts with '@', '|', a step keyword or a        *)
(* section keyword.                                                        *)
(***************************************************************************)
DocPool ==
  {FenceLine, TagLineWip, RowBob, GivenLine, ScenarioLine, BackgroundLine,
   NotesLine, BlankLine}

DocSpec == Init /\ [][NextOver(DocPool)]_vars

\* line k is a fence or lies between an opening fence and the next fence
Captured(ls, k) ==
  k \in 1..Len(ls) /\ (IsFence(ls, k) \/ DocOpenAt(ls, k))

\* the opening fence of the doc string that captures line k
OpeningFence(ls, k) ==
  Max({j \in 1..k : IsFence(ls, j) /\ ~DocOpenAt(ls, j)})

IsBackgroundLineAt(ls, k) ==
  Outside(ls, k) /\ startsWith(ls[k], BackgroundPrefix)

\* the lines before line k that redirect the step collector
CollectorLinesBefore(ls, k) ==
  {j \in 1..(k - 1) : IsBackgroundLineAt(ls, j) \/ IsScenarioLikeAt(ls, j)}

\* the owner of the step collector in force when line k arrives, by the input
CollectorAt(ls, k) ==
  IF CollectorLinesBefore(ls, k) = {} THEN DetachedRef
  ELSE LET j == Max(CollectorLinesBefore(ls, k))
       IN IF IsBackgroundLineAt(ls, j) THEN BackgroundRef
          ELSE ScenarioRef(EntityOf(ls, j))

\* context c with line appended to the steps of owner, and nothing else
AppendedTo(c, owner, line) ==
  CASE owner.kind = "background" ->
         [c EXCEPT !.feature.background.steps = Append(@, line)]
    [] owner.kind = "scenario" ->
         [c EXCEPT !.feature.scenarios[owner.idx].steps = Append(@, line)]
    [] owner.kind = "detached" -> c

C3_DocStringCapture ==
  [][(Len(lines') = Len(lines) + 1 /\ Captured(lines', Len(lines'))) =>
       LET k == Len(lines')
           line == lines'[k]
           owner == CollectorAt(lines', OpeningFence(lines', k))
           flag == IF startsWith(line, TripleQuote)
                     THEN ~ctx.inDocString ELSE ctx.inDocString
       IN /\ ctx' = [AppendedTo(ctx, owner, line) EXCEPT !.inDocString = flag]
          /\ detached' = IF owner.kind = "detached"
                           THEN Append(detached, line) ELSE detached]_vars

\* a closed doc string that captured a line starting with 'Scenario:', '@',
\* '|' or a step keyword: the three lines are the steps of the scenario
\* declared before it, and no tag is buffered and no entity was created
C3_Witness ==
  /\ Len(lines) = 4
  /\ IsScenarioLineAt(lines, 1)
  /\ IsFence(lines, 2) /\ IsFence(lines, 4)
  /\ \/ startsWith(lines[3], ScenarioPrefix)
     \/ startsWith(lines[3], <<"@">>)
     \/ startsWith(lines[3], <<"|">>)
     \/ isStepLine(lines[3])
  /\ ctx.feature.scenarios[1].steps = SubSeq(lines, 2, 4)
  /\ Len(ctx.feature.scenarios) = 1
  /\ ctx.pendingTags = <<>>
  /\ ~ctx.inDocString

(***************************************************************************)
(* C4.  A keyword line ends the previous scenario's step collection: a     *)
(* step line that comes after a keyword line is never appended to the      *)
(* steps of a scenario declared before that keyword line.                  *)
(***************************************************************************)
KeywordPool ==
  {FeatureLine, BackgroundLine, OutlineLine, ScenarioLine, ExamplesLine,
   RuleLine, GivenLine, FenceLine, TagLineWip, RowBob, NotesLine}

KeywordSpec == Init /\ [][NextOver(KeywordPool)]_vars

\* line k is handled by one of the six keyword handlers
IsKeywordLineAt(ls, k) ==
  /\ Outside(ls, k)
  /\ \E h \in 1..Len(HandlerKeys) : startsWith(ls[k], HandlerKeys[h])

\* line k is handled by a handler that assigns ctx.currentStepCollector
IsCollectorLineAt(ls, k) == IsBackgroundLineAt(ls, k) \/ IsScenarioLikeAt(ls, k)

IsStepLineAt(ls, k) == Outside(ls, k) /\ isStepLine(ls[k])

\* the line that declared the entity at position s of feature.scenarios
DeclaredAt(ls, s) ==
  CHOOSE j \in 1..Len(ls) : IsScenarioLikeAt(ls, j) /\ EntityOf(ls, j) = s

\* the step that handles a step line leaves the steps of scenario s alone
StepLineSpares(s) ==
  ctx'.feature.scenarios[s].steps = ctx.feature.scenarios[s].steps

\* the claim as stated, for all six keywords
C4_AnyKeywordEndsCollection ==
  [][(Len(lines') = Len(lines) + 1 /\ IsStepLineAt(lines', Len(lines'))) =>
       \A s \in 1..Len(ctx.feature.scenarios) :
         (\E j \in (DeclaredAt(lines, s) + 1)..Len(lines) :
            IsKeywordLineAt(lines, j)) => StepLineSpares(s)]_vars

\* the claim for the keywords whose handlers reassign the collector:
\* 'Background:', 'Scenario Outline:' and 'Scenario:'
C4_CollectorKeywordEndsCollection ==
  [][(Len(lines') = Len(lines) + 1 /\ IsStepLineAt(lines', Len(lines'))) =>
       \A s \in 1..Len(ctx.feature.scenarios) :
         (\E j \in (DeclaredAt(lines, s) + 1)..Len(lines) :
            IsCollectorLineAt(lines, j)) => StepLineSpares(s)]_vars

\* a scenario collected a step, then a 'Background:', 'Scenario:' or
\* 'Scenario Outline:' line came, and the step line after it went elsewhere
C4_Witness ==
  /\ Len(lines) = 4
  /\ IsScenarioLikeAt(lines, 1)
  /\ IsStepLineAt(lines, 2)
  /\ IsCollectorLineAt(lines, 3)
  /\ IsStepLineAt(lines, 4)
  /\ ctx.feature.scenarios[1].steps = <<lines[2]>>

(***************************************************************************)
(* extractVariablesFromStep as a pure function: a specification that draws *)
(* the step text from all short strings over an alphabet with a quote, a   *)
(* letter, a digit, a space and a dot, and from the login step of the      *)
(* documentation, and applies the function to it.                          *)
(***************************************************************************)
StepAlphabet == {Quote, "a", "1", " ", "."}

LoginStep ==
  <<"G","i","v","e","n"," ","a"," ","u","s","e","r"," ","w","i","t","h"," ",
    "u","s","e","r","n","a","m","e"," ","\"","j","o","h","n","_","d","o","e",
    "\""," ","a","n","d"," ","p","a","s","s","w","o","r","d"," ","\"","s",
    "e","c","r","e","t","1","2","3","\"">>

StepStrings ==
  UNION {[1..len -> StepAlphabet] : len \in 0..MaxStepLen} \cup {LoginStep}

ExtractInit ==
  /\ pc = "extract"
  /\ step \in StepStrings
  /\ variables = <<>>
  /\ earlier = NoCall
  /\ n = 0
  /\ i = 0
  /\ lines = <<>>
  /\ ctx = InitialContext
  /\ detached = <<>>
  /\ error = FALSE
  /\ outputs = <<>>

Extract ==
  /\ pc = "extract"
  /\ variables' = extractVariablesFromStep(step)
  /\ pc' = "extracted"
  /\ UNCHANGED <<n, i, lines, ctx, detached, error, outputs, step, earlier>>

ExtractSpec == ExtractInit /\ [][Extract]_vars

(***************************************************************************)
(* C5.  Quoted text: the quotes of a step pair up left to right (first     *)
(* with second, third with fourth, ...); the text between the n-th pair is *)
(* stored under key n, quotes stripped.  The login step yields exactly     *)
(* key1 = john_doe and key2 = secret123, and a step with no quote and no   *)
(* numeral yields the empty mapping.                                       *)
(***************************************************************************)
\* the positions of the quotes of s, in ascending order
RECURSIVE QuotePositions(_, _)
QuotePositions(s, p) ==
  IF p > Len(s) THEN <<>>
  ELSE IF s[p] = Quote THEN <<p>> \o QuotePositions(s, p + 1)
  ELSE QuotePositions(s, p + 1)

\* the text between the quotes of the m-th pair
PairText(s, m) ==
  LET q == QuotePositions(s, 1)
  IN SubSeq(s, q[2 * m - 1] + 1, q[2 * m] - 1)

PairCount(s) == Len(QuotePositions(s, 1)) \div 2

\* the keys of the mapping that start with "key"
QuotedKeys(o) ==
  {j \in 1..Len(o) : startsWith(o[j][1], <<"k", "e", "y">>)}

C5_QuotedPairsCaptured ==
  pc = "extracted" =>
    /\ Cardinality(QuotedKeys(variables)) = PairCount(step)
    /\ \A m \in 1..PairCount(step) :
         /\ ObjHas(variables, keyName(m))
         /\ ObjGet(variables, keyName(m)) = PairText(step, m)
    /\ (step = LoginStep =>
          variables = << <<keyName(1), <<"j","o","h","n","_","d","o","e">> >>,
                         <<keyName(2),
                           <<"s","e","c","r","e","t","1","2","3">> >> >>)
    /\ ((\A p \in 1..Len(step) : step[p] \notin Digits \cup {Quote}) =>
          variables = <<>>)

(***************************************************************************)
(* C6.  The parser is total: on every input, malformed or out of order,    *)
(* no iteration throws, each iteration handles the next line of the input  *)
(* and no other, and the loop ends with the return of the feature after    *)
(* the last line.  Termination is stated by its variant: while the loop    *)
(* runs a step is always possible, each iteration moves i one line closer  *)
(* to n, and at i = n the only step is the return.                         *)
(***************************************************************************)
MalformedPool ==
  {RowBob, RowUserPw, GivenLine, FenceLine, ExamplesLine, TagLineWip,
   ScenarioLine, NotesLine}

MalformedNext == NextOver(MalformedPool)

TotalSpec == Init /\ [][MalformedNext]_vars

C6_ParserTotal ==
  /\ [](~error /\ pc # "threw")
  /\ [](pc = "loop" => i <= n /\ ENABLED MalformedNext)
  /\ [][pc = "loop" =>
          \/ /\ i < n
             /\ i' = i + 1
             /\ Len(lines') = i'
             /\ SubSeq(lines', 1, i) = lines
             /\ pc' = "loop"
          \/ /\ i = n
             /\ pc' = "returned"
             /\ lines' = lines
             /\ ctx' = ctx]_vars
  /\ [](pc = "returned" => i = n /\ Len(lines) = n)

\* a feature returned from an input with a table row while no scenario is
\* active and a header is buffered, a step before any scenario, and a doc
\* string never closed
C6_Witness ==
  /\ pc = "returned"
  /\ ctx.inDocString
  /\ ctx.currentScenario = NullRef
  /\ ctx.headers # <<>>
  /\ \E k \in 2..Len(lines) :
       /\ startsWith(lines[k], <<"|">>)
       /\ \E j \in 1..(k - 1) : startsWith(lines[j], <<"|">>)
  /\ \E k \in 1..Len(detached) : isStepLine(detached[k])

(***************************************************************************)
(* C7.  Generator structure: one group wrapper titled with the feature     *)
(* name holds the background case (when a Background with a step exists,   *)
(* titled with its first step) and then one case per scenario in order,    *)
(* titled with the name (Scenario) or 'Scenario Outline: ' + name          *)
(* (outline); the empty Feature yields the preamble and an empty wrapper.  *)
(***************************************************************************)
GeneratorPool ==
  {FeatureLine, BackgroundLine, ScenarioLine, OutlineLine, GivenLine,
   WhenLine, FenceLine, TagLineWip, RowBob, NotesLine}

GeneratorSpec == Init /\ [][NextOver(GeneratorPool)]_vars

HasBackgroundCase(f) == f.background.present /\ f.background.steps # <<>>

\* the titles the claim gives the test cases, in order
ExpectedTitles(f) ==
  (IF HasBackgroundCase(f)
     THEN << <<"B","a","c","k","g","r","o","u","n","d",":"," ">>
               \o f.background.steps[1] >>
     ELSE <<>>)
  \o [s \in 1..Len(f.scenarios) |->
        IF f.scenarios[s].class = "ScenarioOutlineModel"
          THEN <<"S","c","e","n","a","r","i","o"," ","O","u","t","l","i","n",
                 "e",":"," ">> \o f.scenarios[s].name
          ELSE f.scenarios[s].name]

OfKind(out, kind) == SelectSeq(out, LAMBDA e : e.kind = kind)

Titles(out) == [k \in 1..Len(OfKind(out, "it")) |-> OfKind(out, "it")[k].text]

WrapperOf(f) ==
  Entry("describe", <<"F","e","a","t","u","r","e",":"," ">> \o f.name, <<>>)

\* generateMochaTests yields a text for the feature (it is defined on it) and
\* the text has the structure the claim gives
WellStructured(out, f) ==
  /\ SubSeq(out, 1, 3) = preamble
  /\ out[4] = WrapperOf(f)
  /\ out[Len(out)] = Entry("endDescribe", <<>>, <<>>)
  /\ Len(OfKind(out, "describe")) = 1
  /\ Len(OfKind(out, "endDescribe")) = 1
  /\ Len(OfKind(out, "it"))
       = (IF HasBackgroundCase(f) THEN 1 ELSE 0) + Len(f.scenarios)
  /\ Len(OfKind(out, "end")) = Len(OfKind(out, "it"))
  /\ Titles(out) = ExpectedTitles(f)
  /\ (f = FeatureModel =>
        out = preamble \o << Entry("describe",
                                   <<"F","e","a","t","u","r","e",":"," ">>,
                                   <<>>),
                             Entry("endDescribe", <<>>, <<>>) >>)

\* for every feature the parser returns, and for every text generated from it
C7_GeneratorStructure ==
  /\ pc = "returned" =>
       WellStructured(generateMochaTests(ctx.feature).text, ctx.feature)
  /\ \A g \in 1..Len(outputs) : WellStructured(outputs[g], ctx.feature)

\* text generated from a feature with a background step, then a plain
\* scenario and an outline
C7_Witness ==
  /\ Len(outputs) >= 1
  /\ HasBackgroundCase(ctx.feature)
  /\ Len(ctx.feature.scenarios) = 2
  /\ ctx.feature.scenarios[1].class = "ScenarioModel"
  /\ ctx.feature.scenarios[2].class = "ScenarioOutlineModel"
  /\ Len(Titles(outputs[1])) = 3

(***************************************************************************)
(* C8.  Generator data merge: the data value of the background case and of *)
(* every plain Scenario has exactly the keys that the extracted-variables  *)
(* mapping of some entry of its step list has, each with the value from    *)
(* the last such entry.                                                    *)
(***************************************************************************)
OfClass(scenarios, class) == SelectSeq(scenarios, LAMBDA x : x.class = class)

\* the step lists whose merged data the text holds, in output order
MergedStepLists(f) ==
  (IF HasBackgroundCase(f) THEN <<f.background.steps>> ELSE <<>>)
  \o [k \in 1..Len(OfClass(f.scenarios, "ScenarioModel")) |->
        OfClass(f.scenarios, "ScenarioModel")[k].steps]

KeySet(o) == {o[m][1] : m \in 1..Len(o)}

KeysOfSteps(steps) ==
  UNION {KeySet(extractVariablesFromStep(steps[j])) : j \in 1..Len(steps)}

\* the last entry of steps whose mapping has key k
LastWith(steps, k) ==
  Max({j \in 1..Len(steps) : ObjHas(extractVariablesFromStep(steps[j]), k)})

IsMergeOf(data, steps) ==
  /\ KeySet(data) = KeysOfSteps(steps)
  /\ Len(data) = Cardinality(KeySet(data))
  /\ \A k \in KeySet(data) :
       ObjGet(data, k)
         = ObjGet(extractVariablesFromStep(steps[LastWith(steps, k)]), k)

C8_DataMerge ==
  \A g \in 1..Len(outputs) :
    LET data == OfKind(outputs[g], "data")
        lists == MergedStepLists(ctx.feature)
    IN /\ Len(data) = Len(lists)
       /\ \A k \in 1..Len(data) : IsMergeOf(data[k].value, lists[k])

\* text generated from a plain scenario whose two steps both yield key1, with
\* different values
C8_Witness ==
  /\ Len(outputs) >= 1
  /\ \E s \in 1..Len(ctx.feature.scenarios) :
       LET steps == ctx.feature.scenarios[s].steps
       IN /\ ctx.feature.scenarios[s].class = "ScenarioModel"
          /\ Len(steps) = 2
          /\ ObjHas(extractVariablesFromStep(steps[1]), keyName(1))
          /\ ObjHas(extractVariablesFromStep(steps[2]), keyName(1))
          /\ ObjGet(extractVariablesFromStep(steps[1]), keyName(1))
               # ObjGet(extractVariablesFromStep(steps[2]), keyName(1))

(***************************************************************************)
(* C9.  Outline end-to-end: 'Scenario Outline:', 'Examples:', a header row *)
(* with k >= 1 columns and m data rows, one after the other, give an       *)
(* outline whose examples are exactly the m rows, each the mapping from    *)
(* the header cells to the trimmed cells of the row, in input order, and   *)
(* the text generated from it holds an array of exactly these m mappings.  *)
(***************************************************************************)
OutlinePool ==
  {OutlineLine, ExamplesLine, RowUserPw, RowBob, FenceLine, TagLineWip,
   GivenLine, NotesLine}

OutlineSpec == InitLen(MaxOutlineLines) /\ [][NextOver(OutlinePool)]_vars

IsExamplesLineAt(ls, k) == Outside(ls, k) /\ startsWith(ls[k], ExamplesPrefix)

IsTableRowAt(ls, k) == Outside(ls, k) /\ startsWith(ls[k], <<"|">>)

\* the lines handled so far end with an outline line at o, an 'Examples:'
\* line, a header row with at least one column and then data rows only
EndsWithOutlineTable(ls, o) ==
  /\ o + 2 <= Len(ls)
  /\ IsOutlineLineAt(ls, o)
  /\ IsExamplesLineAt(ls, o + 1)
  /\ \A k \in (o + 2)..Len(ls) : IsTableRowAt(ls, k)
  /\ Len(parseTableRow(ls[o + 2])) >= 1

\* row maps each header cell to the cell of the data row in its column
IsMappingOf(row, headers, cells) ==
  /\ KeySet(row) = {headers[j] : j \in 1..Len(headers)}
  /\ Len(row) = Cardinality(KeySet(row))
  /\ \A j \in 1..Len(headers) :
       (\A m \in (j + 1)..Len(headers) : headers[m] # headers[j]) =>
         ObjGet(row, headers[j]) = CellOrEmpty(cells, j)

\* rows are the mappings of the data rows that follow the header at line h
AreRowsOf(rows, ls, h) ==
  /\ Len(rows) = Len(ls) - h
  /\ \A r \in 1..Len(rows) :
       IsMappingOf(rows[r], parseTableRow(ls[h]), parseTableRow(ls[h + r]))

\* the entries of the text that follow its last test-case title
LastCase(out) ==
  LET its == {k \in 1..Len(out) : out[k].kind = "it"}
  IN SubSeq(out, Max(its), Len(out))

ArrayRows(entries) ==
  [k \in 1..Len(OfKind(entries, "arrayRow")) |->
     OfKind(entries, "arrayRow")[k].value]

C9_OutlineEndToEnd ==
  \A o \in 1..Len(lines) :
    EndsWithOutlineTable(lines, o) =>
      /\ ctx.feature.scenarios[EntityOf(lines, o)].class
           = "ScenarioOutlineModel"
      /\ EntityOf(lines, o) = Len(ctx.feature.scenarios)
      /\ AreRowsOf(ctx.feature.scenarios[EntityOf(lines, o)].examples,
                   lines, o + 2)
      /\ \A g \in 1..Len(outputs) :
           /\ Len(OfKind(LastCase(outputs[g]), "arrayOpen")) = 1
           /\ Len(OfKind(LastCase(outputs[g]), "arrayClose")) = 1
           /\ Len(OfKind(LastCase(outputs[g]), "data")) = 0
           /\ AreRowsOf(ArrayRows(LastCase(outputs[g])), lines, o + 2)

\* text generated from an outline with a two-column header and two data
\* rows, the first of them one cell short
C9_Witness ==
  /\ Len(lines) = 5
  /\ EndsWithOutlineTable(lines, 1)
  /\ Len(parseTableRow(lines[3])) = 2
  /\ Len(parseTableRow(lines[4])) = 1
  /\ Len(parseTableRow(lines[5])) = 2
  /\ Len(outputs) >= 1
  /\ Len(ArrayRows(LastCase(outputs[1]))) = 2
  /\ ArrayRows(LastCase(outputs[1]))[1] # ArrayRows(LastCase(outputs[1]))[2]

(***************************************************************************)
(* C10.  The generator is a read-only consumer: a call of generate leaves  *)
(* the feature (name, description, background, every scenario's name,      *)
(* steps, tags and examples) as it was, so a second call on the same       *)
(* feature returns the same text as the first.                             *)
(***************************************************************************)
C10_GeneratorReadOnly ==
  [][pc = "returned" =>
       /\ ctx'.feature = ctx.feature
       /\ (outputs # <<>> /\ outputs' # outputs =>
             outputs'[Len(outputs')] = outputs[Len(outputs)])]_vars

\* two texts generated from a feature with a background step and a scenario
\* with a step
C10_Witness ==
  /\ Len(outputs) = 2
  /\ outputs[1] = outputs[2]
  /\ HasBackgroundCase(ctx.feature)
  /\ \E s \in 1..Len(ctx.feature.scenarios) :
       ctx.feature.scenarios[s].steps # <<>>

(***************************************************************************)
(* Several calls of parseFeature, one after the other (the function is     *)
(* synchronous, so calls never interleave).  A new call reads its own      *)
(* lines and constructs its own Context; earlier remembers the lines and   *)
(* the returned feature of one call that has returned, any of them.        *)
(***************************************************************************)
ThisCall == [returned |-> TRUE, lines |-> lines, feature |-> ctx.feature]

\* a Context literal that kept the pending tags of the call before
ContextKeepingTags(c) == [InitialContext EXCEPT !.pendingTags = c.pendingTags]

\* the Context literal of a call made after another call left context c
FreshContext(c) == InitialContext

\* parseFeature is called again, after a call that returned
CallAgain ==
  /\ pc = "returned"
  /\ pc' = "loop"
  /\ n' \in 0..MaxCallLines
  /\ i' = 0
  /\ lines' = <<>>
  /\ ctx' = FreshContext(ctx)
  /\ detached' = <<>>
  /\ outputs' = <<>>
  /\ earlier' \in {earlier, ThisCall}
  /\ UNCHANGED <<error, step, variables>>

CallPool ==
  {FenceLine, TagLineWip, ScenarioLine, OutlineLine, RowBob, GivenLine,
   NotesLine}

CallsNext ==
  \/ NextOver(CallPool)
  \/ CallAgain

CallsSpec == InitLen(MaxCallLines) /\ [][CallsNext]_vars

(***************************************************************************)
(* C11.  Parsing is deterministic and shares no state between calls: every *)
(* call starts from the fresh context (mode none, the empty detached       *)
(* collector, no active entity, empty header, empty pending tags, doc      *)
(* string flag off), and a call that returns after handling the same lines *)
(* as an earlier call, whatever calls lie between, returns an equal        *)
(* feature.                                                                *)
(***************************************************************************)
C11_CallsIndependent ==
  /\ (pc = "loop" /\ i = 0) => (ctx = InitialContext /\ detached = <<>>)
  /\ (pc = "returned" /\ earlier.returned /\ earlier.lines = lines)
       => earlier.feature = ctx.feature

\* a call returned the feature of a tagged scenario, after an earlier call
\* that handled the same two lines
C11_Witness ==
  /\ pc = "returned"
  /\ earlier.returned
  /\ earlier.lines = lines
  /\ lines = <<trim(TagLineWip), trim(ScenarioLine)>>
  /\ Len(ctx.feature.scenarios) = 1
  /\ ctx.feature.scenarios[1].tags = << <<"@","w","i","p">> >>

(***************************************************************************)
(* C12.  A tag line outside a doc string replaces the pending-tags buffer  *)
(* with exactly the whitespace-separated tokens of the line, discarding    *)
(* the tags buffered before, and changes nothing else: the feature, the    *)
(* mode, the collector and its contents, the active entity, the header     *)
(* buffer and the doc-string flag stay as they were.                       *)
(***************************************************************************)
\* the positions where a maximal run of non-blank characters begins
TokenStarts(s) ==
  {k \in 1..Len(s) : ~IsSpace(s[k]) /\ (k = 1 \/ IsSpace(s[k - 1]))}

\* the maximal run of non-blank characters that begins at position k
TokenAt(s, k) ==
  SubSeq(s, k, Max({j \in k..Len(s) : \A m \in k..j : ~IsSpace(s[m])}))

\* the maximal runs of non-blank characters of s, left to right
WhitespaceTokens(s) ==
  [m \in 1..Cardinality(TokenStarts(s)) |->
     TokenAt(s, CHOOSE k \in TokenStarts(s) :
                  Cardinality({j \in TokenStarts(s) : j < k}) = m - 1)]

HandledTagLine ==
  /\ pc = "loop"
  /\ Len(lines') = Len(lines) + 1
  /\ IsTagLineAt(lines', Len(lines'))

C12_TagLineReplacesBuffer ==
  [][HandledTagLine =>
       /\ ctx' = [ctx EXCEPT
                    !.pendingTags = WhitespaceTokens(lines'[Len(lines')])]
       /\ detached' = detached
       /\ pc' = "loop"
       /\ error' = error]_vars

\* the tags of the second tag line replaced the buffered tag of the first,
\* in the scenario mode and with a step collected
C12_Witness ==
  /\ Len(lines) = 4
  /\ lines[1] = trim(ScenarioLine)
  /\ lines[2] = trim(GivenLine)
  /\ lines[3] = trim(TagLineWip)
  /\ lines[4] = trim(TagsLine)
  /\ ctx.pendingTags = << <<"@","s","m","o","k","e">>, <<"@","f","a","s","t">> >>
  /\ ctx.mode = "scenario"

(***************************************************************************)
(* C13.  Flush-then-clear: right after a 'Scenario:' or 'Scenario          *)
(* Outline:' line the pending-tags buffer is empty.  The tags of a         *)
(* scenario-like entity are the tokens of the last tag line that lies      *)
(* between the previous scenario-like line and its own line, whatever      *)
(* 'Background:', step, table or free-text lines intervene, and are empty  *)
(* when no tag line lies there: buffered tags reach at most one entity.    *)
(***************************************************************************)
FlushPool ==
  {TagLineWip, TagsLine, BackgroundLine, ScenarioLine, OutlineLine, FenceLine,
   GivenLine, RowBob, NotesLine}

FlushSpec == Init /\ [][NextOver(FlushPool)]_vars

\* the tag lines between the scenario-like line before line k and line k
TagLinesFor(ls, k) ==
  {t \in 1..(k - 1) :
     /\ IsTagLineAt(ls, t)
     /\ \A j \in (t + 1)..(k - 1) : ~IsScenarioLikeAt(ls, j)}

C13_FlushThenClear ==
  /\ (lines # <<>> /\ IsScenarioLikeAt(lines, Len(lines)))
       => ctx.pendingTags = <<>>
  /\ \A k \in 1..Len(lines) :
       IsScenarioLikeAt(lines, k) =>
         ctx.feature.scenarios[EntityOf(lines, k)].tags
           = IF TagLinesFor(lines, k) = {} THEN <<>>
             ELSE WhitespaceTokens(lines[Max(TagLinesFor(lines, k))])

\* a tag line, a 'Background:' line, then two scenario-like lines: the first
\* entity has the tag, the second has none
C13_Witness ==
  /\ Len(lines) = 4
  /\ IsTagLineAt(lines, 1)
  /\ IsBackgroundLineAt(lines, 2)
  /\ IsOutlineLineAt(lines, 3)
  /\ IsScenarioLineAt(lines, 4)
  /\ Len(ctx.feature.scenarios) = 2
  /\ ctx.feature.scenarios[1].tags = << <<"@","w","i","p">> >>
  /\ ctx.feature.scenarios[2].tags = <<>>
  /\ ctx.pendingTags = <<>>

(***************************************************************************)
(* C14.  Description contents: the description of the feature is, in input *)
(* order, one 'Rule: ' + remainder line per 'Rule:' line and every         *)
(* non-empty line that matched no other dispatch rule and arrived while    *)
(* the mode was 'none'.  The mode is 'none' exactly as long as no          *)
(* 'Background:', 'Scenario:', 'Scenario Outline:' or 'Rule:' line has     *)
(* been handled, and a free-text or blank line that arrives afterwards     *)
(* changes nothing.                                                        *)
(***************************************************************************)
PaddedNotesLine == <<" ","A","s"," ","a"," ","u","s","e","r"," ">>

DescriptionPool ==
  {FeatureLine, RuleLine, NotesLine, PaddedNotesLine, BlankLine, ScenarioLine,
   BackgroundLine, FenceLine, TagLineWip, RowBob, GivenLine}

DescriptionSpec == Init /\ [][NextOver(DescriptionPool)]_vars

IsRuleLineAt(ls, k) == Outside(ls, k) /\ startsWith(ls[k], RulePrefix)

\* line k is handled by a handler that assigns ctx.mode
IsModeLineAt(ls, k) == IsCollectorLineAt(ls, k) \/ IsRuleLineAt(ls, k)

\* line k matches no dispatch rule: the free-text branch handles it
IsFreeLineAt(ls, k) ==
  /\ Outside(ls, k)
  /\ ~IsTagLineAt(ls, k)
  /\ ~IsKeywordLineAt(ls, k)
  /\ ~IsTableRowAt(ls, k)
  /\ ~IsStepLineAt(ls, k)

ModeNoneAt(ls, k) == \A j \in 1..(k - 1) : ~IsModeLineAt(ls, j)

\* the remainder of a 'Rule:' line: what follows the colon, without the
\* blanks around it
RuleRemainder(line) ==
  LET rest == SubSeq(line, Len(RulePrefix) + 1, Len(line))
      keep == {k \in 1..Len(rest) : ~IsSpace(rest[k])}
  IN IF keep = {} THEN <<>> ELSE SubSeq(rest, Min(keep), Max(keep))

RECURSIVE DescriptionOf(_, _)
DescriptionOf(ls, k) ==
  IF k = 0 THEN <<>>
  ELSE DescriptionOf(ls, k - 1) \o
         (IF IsRuleLineAt(ls, k)
            THEN << <<"R","u","l","e",":"," ">> \o RuleRemainder(ls[k]) >>
          ELSE IF IsFreeLineAt(ls, k) /\ ls[k] # <<>> /\ ModeNoneAt(ls, k)
            THEN <<ls[k]>>
          ELSE <<>>)

HandledLateFreeLine ==
  /\ pc = "loop"
  /\ Len(lines') = Len(lines) + 1
  /\ IsFreeLineAt(lines', Len(lines'))
  /\ ~ModeNoneAt(lines', Len(lines'))

C14_DescriptionContents ==
  [][/\ ctx'.feature.description = DescriptionOf(lines', Len(lines'))
     /\ (ctx'.mode = "none") = ModeNoneAt(lines', Len(lines') + 1)
     /\ HandledLateFreeLine => (ctx' = ctx /\ detached' = detached)]_vars

\* a free-text line kept, a rule line synthesized, a later free-text line
\* dropped
C14_Witness ==
  /\ lines = <<trim(PaddedNotesLine), trim(RuleLine), trim(NotesLine)>>
  /\ ctx.feature.description
       = <<trim(PaddedNotesLine), <<"R","u","l","e",":"," ","R","1">> >>
  /\ ctx.mode = "rule"

(***************************************************************************)
(* C15.  Table-row frame: a table row outside a doc string changes the     *)
(* feature only when a header is buffered and the active entity, that is   *)
(* the entity of the last 'Scenario:' / 'Scenario Outline:' line whatever  *)
(* 'Background:' or 'Rule:' line came later, is an outline; then exactly   *)
(* one example row is appended to that outline and nothing else changes.   *)
(* With a header buffered and a plain Scenario or no entity active the row *)
(* changes nothing; with no header buffered only the header buffer changes.*)
(***************************************************************************)
RowFramePool ==
  {OutlineLine, ScenarioLine, BackgroundLine, RuleLine, RowUserPw, RowBob,
   FenceLine, TagLineWip, GivenLine, NotesLine}

RowFrameSpec == Init /\ [][NextOver(RowFramePool)]_vars

\* the scenario-like lines before line k
ScenarioLikeBefore(ls, k) == {j \in 1..(k - 1) : IsScenarioLikeAt(ls, j)}

\* an outline is the active entity when line k arrives, by the input
OutlineActiveAt(ls, k) ==
  /\ ScenarioLikeBefore(ls, k) # {}
  /\ IsOutlineLineAt(ls, Max(ScenarioLikeBefore(ls, k)))

HandledTableRow ==
  /\ pc = "loop"
  /\ Len(lines') = Len(lines) + 1
  /\ IsTableRowAt(lines', Len(lines'))

\* context c2 is c1 with one row more in the examples of scenario a
OneRowAppended(c1, c2, a) ==
  LET after == c2.feature.scenarios[a].examples
  IN /\ Len(after) = Len(c1.feature.scenarios[a].examples) + 1
     /\ c2 = [c1 EXCEPT !.feature.scenarios[a].examples
                          = Append(@, after[Len(after)])]

C15_TableRowFrame ==
  [][HandledTableRow =>
       /\ detached' = detached
       /\ pc' = "loop"
       /\ IF ctx.headers = <<>>
            THEN /\ ctx'.feature = ctx.feature
                 /\ ctx' = [ctx EXCEPT !.headers = ctx'.headers]
          ELSE IF OutlineActiveAt(lines', Len(lines'))
            THEN OneRowAppended(ctx, ctx',
                                EntityOf(lines', Len(lines')))
          ELSE ctx' = ctx]_vars

\* a row appended to the outline although a 'Background:' line came after
\* the outline was declared
C15_Witness ==
  /\ lines = <<trim(RowUserPw), trim(OutlineLine), trim(BackgroundLine),
               trim(RowBob)>>
  /\ Len(ctx.feature.scenarios[1].examples) = 1
  /\ ctx.feature.background.present

(***************************************************************************)
(* C16.  An 'Examples:' line only empties the header buffer: the mode, the *)
(* active entity, the step collector, the pending tags and the feature     *)
(* stay as they were.  The first table row after it becomes the header     *)
(* buffer and is never appended as an example row, whatever header was     *)
(* buffered before the 'Examples:' line.                                   *)
(***************************************************************************)
HandledExamplesLine ==
  /\ pc = "loop"
  /\ Len(lines') = Len(lines) + 1
  /\ IsExamplesLineAt(lines', Len(lines'))

\* line k is the first table row after an 'Examples:' line
FirstRowAfterExamples(ls, k) ==
  /\ IsTableRowAt(ls, k)
  /\ \E e \in 1..(k - 1) :
       /\ IsExamplesLineAt(ls, e)
       /\ \A j \in (e + 1)..(k - 1) : ~IsTableRowAt(ls, j)

\* the positions of the bars of a line
Bars(s) == {k \in 1..Len(s) : s[k] = "|"}

\* the text between two positions, without the blanks around it
Between(s, a, b) ==
  LET keep == {k \in (a + 1)..(b - 1) : ~IsSpace(s[k])}
  IN IF keep = {} THEN <<>> ELSE SubSeq(s, Min(keep), Max(keep))

\* the cells of a table row: the texts between consecutive bars
CellsBetweenBars(s) ==
  [m \in 1..(Cardinality(Bars(s)) - 1) |->
     LET a == CHOOSE k \in Bars(s) :
                Cardinality({j \in Bars(s) : j < k}) = m - 1
         b == Min({k \in Bars(s) : k > a})
     IN Between(s, a, b)]

C16_ExamplesResetsHeader ==
  [][/\ HandledExamplesLine =>
          (ctx' = [ctx EXCEPT !.headers = <<>>] /\ detached' = detached)
     /\ (HandledTableRow /\ FirstRowAfterExamples(lines', Len(lines'))) =>
          /\ ctx' = [ctx EXCEPT
                       !.headers = CellsBetweenBars(lines'[Len(lines')])]
          /\ detached' = detached]_vars

\* a header was buffered before the 'Examples:' line of an outline; the row
\* after the line replaced it and the outline has no example row
C16_Witness ==
  /\ lines = <<trim(OutlineLine), trim(RowUserPw), trim(ExamplesLine),
               trim(RowBob)>>
  /\ ctx.headers = << <<"b","o","b">> >>
  /\ ctx.feature.scenarios[1].examples = <<>>

(***************************************************************************)
(* C17.  The scenario list is append-only and order-preserving: it holds   *)
(* exactly one entry per 'Scenario:' / 'Scenario Outline:' line handled    *)
(* outside a doc string, in input order, each of the kind of its line and  *)
(* named with the trimmed remainder of its line; no step removes, reorders *)
(* or renames an entry.                                                    *)
(***************************************************************************)
\* the scenario-like lines handled so far
ScenarioLikeLines(ls) == {k \in 1..Len(ls) : IsScenarioLikeAt(ls, k)}

\* what follows the keyword of a scenario-like line, without the blanks
\* around it
NameAt(ls, k) ==
  LET colon == IF IsOutlineLineAt(ls, k) THEN Len(OutlinePrefix)
               ELSE Len(ScenarioPrefix)
  IN Between(ls[k], colon, Len(ls[k]) + 1)

ClassAt(ls, k) ==
  IF IsOutlineLineAt(ls, k) THEN "ScenarioOutlineModel" ELSE "ScenarioModel"

ScenariosFollowInput ==
  /\ Len(ctx.feature.scenarios) = Cardinality(ScenarioLikeLines(lines))
  /\ \A k \in ScenarioLikeLines(lines) :
       /\ ctx.feature.scenarios[EntityOf(lines, k)].class = ClassAt(lines, k)
       /\ ctx.feature.scenarios[EntityOf(lines, k)].name = NameAt(lines, k)

C17_ScenariosAppendOnly ==
  [][/\ ScenariosFollowInput'
     /\ Len(ctx'.feature.scenarios) >= Len(ctx.feature.scenarios)
     /\ \A s \in 1..Len(ctx.feature.scenarios) :
          /\ ctx'.feature.scenarios[s].class = ctx.feature.scenarios[s].class
          /\ ctx'.feature.scenarios[s].name = ctx.feature.scenarios[s].name]_vars

\* an outline, then a scenario line inside a doc string: one entry, named
\* after the outline line
C17_Witness ==
  /\ Len(lines) = 4
  /\ IsOutlineLineAt(lines, 1)
  /\ IsFence(lines, 2)
  /\ lines[3] = trim(ScenarioLine)
  /\ IsFence(lines, 4)
  /\ Len(ctx.feature.scenarios) = 1
  /\ ctx.feature.scenarios[1].name = <<"S","i","g","n"," ","i","n">>

(***************************************************************************)
(* C18.  At most one Background: the feature has a background exactly when *)
(* a 'Background:' line was handled outside a doc string, and its steps    *)
(* are the step and doc-string lines that lie after the last 'Background:' *)
(* line and before the next 'Background:', 'Scenario:' or 'Scenario        *)
(* Outline:' line: each 'Background:' line installs a fresh empty          *)
(* Background in place of the earlier one.                                 *)
(***************************************************************************)
BackgroundLines(ls) == {k \in 1..Len(ls) : IsBackgroundLineAt(ls, k)}

\* line k is pushed to the step collector: a step line, a fence or a line
\* inside a doc string
IsCollectedAt(ls, k) == IsStepLineAt(ls, k) \/ Captured(ls, k)

\* the collected lines among lines a..b, in input order
RECURSIVE CollectedIn(_, _, _)
CollectedIn(ls, a, b) ==
  IF a > b THEN <<>>
  ELSE (IF IsCollectedAt(ls, a) THEN <<ls[a]>> ELSE <<>>)
         \o CollectedIn(ls, a + 1, b)

\* the last line of the stretch that begins after collector line b: the
\* line before the next collector line, or the last line handled
StretchEnd(ls, b) ==
  LET next == {k \in (b + 1)..Len(ls) : IsCollectorLineAt(ls, k)}
  IN IF next = {} THEN Len(ls) ELSE Min(next) - 1

C18_SingleBackground ==
  /\ ctx.feature.background.present = (BackgroundLines(lines) # {})
  /\ BackgroundLines(lines) = {} => ctx.feature.background.steps = <<>>
  /\ BackgroundLines(lines) # {} =>
       LET b == Max(BackgroundLines(lines))
       IN ctx.feature.background.steps
            = CollectedIn(lines, b + 1, StretchEnd(lines, b))

\* a second 'Background:' line after a background step: the background
\* holds only the fence that follows the second line
C18_Witness ==
  /\ lines = <<trim(BackgroundLine), trim(GivenLine), trim(BackgroundLine),
               trim(FenceLine)>>
  /\ ctx.feature.background.steps = <<trim(FenceLine)>>

(***************************************************************************)
(* C19.  Step routing: the steps of every entity are, in input order, the  *)
(* step and doc-string lines between the line that created it and the next *)
(* 'Background:', 'Scenario:' or 'Scenario Outline:' line, so every step   *)
(* line is in the steps of the entity of the most recent such line and     *)
(* nowhere else.  The step and doc-string lines before the first such line *)
(* go to the array that no entity owns: no steps list and no description   *)
(* line comes from them.                                                   *)
(***************************************************************************)
\* the steps of the entity created by collector line b, by the input
RoutedTo(ls, b) == CollectedIn(ls, b + 1, StretchEnd(ls, b))

C19_StepRouting ==
  /\ \A s \in 1..Len(ctx.feature.scenarios) :
       ctx.feature.scenarios[s].steps = RoutedTo(lines, DeclaredAt(lines, s))
  /\ ctx.feature.background.steps
       = IF BackgroundLines(lines) = {} THEN <<>>
         ELSE RoutedTo(lines, Max(BackgroundLines(lines)))
  /\ detached = RoutedTo(lines, 0)
  /\ ctx.feature.description = DescriptionOf(lines, Len(lines))

\* a step before any entity, a scenario, a background and a step: the
\* first step is in no steps list, the second in the background's only
C19_Witness ==
  /\ lines = <<trim(GivenLine), trim(ScenarioLine), trim(BackgroundLine),
               trim(WhenLine)>>
  /\ ctx.feature.scenarios[1].steps = <<>>
  /\ ctx.feature.background.steps = <<trim(WhenLine)>>
  /\ ctx.feature.description = <<>>
  /\ pc = "returned"

====
